---- MODULE Spec2Model ----
(***************************************************************************)
(* State machine of the P2P bot dashboard single-page application.         *)
(*                                                                         *)
(* The root component App (session gate and page routing), the Login view  *)
(* and the page components it mounts are modelled from their sources.      *)
(* Every asynchronous handler is split at its awaits: one action for the   *)
(* synchronous part that issues the request, one for each way the request  *)
(* can resolve.  A state update of App is followed, in the same action, by *)
(* React's commit: the component that is no longer rendered is unmounted   *)
(* (its effect cleanups run) and the newly rendered one is mounted (its    *)
(* state is initialised and its effects run).                              *)
(***************************************************************************)
EXTENDS Integers, Sequences, FiniteSets, TLC

(***************************************************************************)
(* Bounds of the model.                                                    *)
(***************************************************************************)
\* requests of page components in flight at once (live and orphaned together,
\* the requests of write handlers whose component was unmounted apart)
MaxInFlight == 2
\* requests of write handlers in flight whose component has been unmounted
MaxOrphanWrites == 1
\* /api/logout requests in flight at once
MaxLogout == 2
MaxEdited == 1

(***************************************************************************)
(* Values.                                                                 *)
(***************************************************************************)
\* what localStorage.getItem('token') returns when the key is absent (null)
None == "null"
\* bearer tokens the backend may issue
Tokens == {"abc", "xyz"}
\* the page names of the navigation bar
Pages == {"Dashboard", "Settings", "Clients", "Orders", "Payments", "Logs"}
\* page names outside the enumerated set
UnknownPages == {"Reports", ""}
\* ways a fetch can end: 2xx with a JSON body, 2xx with a body that does not
\* parse, non-2xx with {message}, non-2xx with JSON without message, non-2xx
\* with a body that does not parse, rejection of the fetch promise
Outcomes == {"ok", "okBadBody", "err", "errNoMsg", "errBadBody", "network"}
\* the answers with a non-2xx status
HttpErrors == {"err", "errNoMsg", "errBadBody"}
\* the text of a {message} the server sends
ServerMsg == "server message"
\* array payloads of the list endpoints
Payloads == {<<"e1">>, <<"e1", "e2">>}
\* payloads of GET /api/status; lastRunTime "" stands for an absent field
StatusPayloads ==
  { [status |-> "Running (cycle 3)", lastRunTime |-> "t1", numOrders |-> 1, numPayments |-> 1],
    [status |-> "Stopped by user", lastRunTime |-> "", numOrders |-> 2, numPayments |-> 2] }

\* payloads of GET /api/config: the server masks the secrets
Masked == "ab***"

ConfigPayloads ==
  { [bybitApiSecret |-> Masked, paystackSecretKey |-> Masked, email_password |-> Masked,
     email_alerts_enabled |-> e] : e \in BOOLEAN }

MissingTokenMsg == "Authentication token missing. Please log in again."

\* the asynchronous read fetchers of the page components
Fetchers == {"Dashboard.fetchBotStatus", "Dashboard.fetchBotLogs", "Logs.fetchBotLogs",
             "Orders.fetchOrders", "Payments.fetchPayments", "Settings.fetchConfig",
             "Clients.fetchClients"}

\* the asynchronous write handlers of the page components
Writers == {"Dashboard.handleRunBot", "Dashboard.handleStopBot", "Clients.handleAddClient",
            "Clients.handleRemoveClient", "Settings.handleSubmit"}

\* everything of a page component that awaits a fetch
Requests == Fetchers \cup Writers

\* the component a fetcher or write handler belongs to
Owner(f) ==
  CASE f = "Dashboard.fetchBotStatus" -> "Dashboard"
    [] f = "Dashboard.fetchBotLogs"   -> "Dashboard"
    [] f = "Logs.fetchBotLogs"        -> "Logs"
    [] f = "Orders.fetchOrders"       -> "Orders"
    [] f = "Payments.fetchPayments"   -> "Payments"
    [] f = "Settings.fetchConfig"     -> "Settings"
    [] f = "Clients.fetchClients"     -> "Clients"
    [] f = "Dashboard.handleRunBot"   -> "Dashboard"
    [] f = "Dashboard.handleStopBot"  -> "Dashboard"
    [] f = "Clients.handleAddClient"  -> "Clients"
    [] f = "Clients.handleRemoveClient" -> "Clients"
    [] f = "Settings.handleSubmit"    -> "Settings"

\* the path each one requests (remove-client appends the client id)
Endpoint(f) ==
  CASE f = "Dashboard.fetchBotStatus" -> "/api/status"
    [] f = "Dashboard.fetchBotLogs"   -> "/api/logs"
    [] f = "Logs.fetchBotLogs"        -> "/api/logs"
    [] f = "Orders.fetchOrders"       -> "/api/orders"
    [] f = "Payments.fetchPayments"   -> "/api/payments"
    [] f = "Settings.fetchConfig"     -> "/api/config"
    [] f = "Clients.fetchClients"     -> "/api/clients"
    [] f = "Dashboard.handleRunBot"   -> "/api/trigger-bot-run"
    [] f = "Dashboard.handleStopBot"  -> "/api/stop-bot"
    [] f = "Clients.handleAddClient"  -> "/api/add-client"
    [] f = "Clients.handleRemoveClient" -> "/api/remove-client/"
    [] f = "Settings.handleSubmit"    -> "/api/config"

Method(f) ==
  CASE f \in Fetchers -> "GET"
    [] f = "Clients.handleRemoveClient" -> "DELETE"
    [] OTHER -> "POST"

\* the interval timers and the fetcher each one calls
Timers == {"Dashboard.statusInterval", "Dashboard.logInterval", "Logs.interval",
           "Orders.interval", "Payments.interval"}

TimerFetcher(t) ==
  CASE t = "Dashboard.statusInterval" -> "Dashboard.fetchBotStatus"
    [] t = "Dashboard.logInterval"    -> "Dashboard.fetchBotLogs"
    [] t = "Logs.interval"            -> "Logs.fetchBotLogs"
    [] t = "Orders.interval"          -> "Orders.fetchOrders"
    [] t = "Payments.interval"        -> "Payments.fetchPayments"

VARIABLES
  storage,          \* localStorage item 'token' (None when absent)
  currentPage,      \* App state
  isAuthenticated,  \* App state
  loadingApp,       \* App state
  checkPc,          \* position of checkAuthStatus: "start", "await", "done"
  logoutPending,    \* number of /api/logout requests handleLogout awaits
  mounted,          \* the view React has mounted under App-main-content
  login,            \* state of the Login component
  loginPending,     \* Login.handleSubmit awaits /api/login
  dashboard,        \* state of the Dashboard component
  logs,             \* state of the Logs component
  orders,           \* state of the Orders component
  payments,         \* state of the Payments component
  settings,         \* state of the Settings component
  clients,          \* state of the Clients component
  timers,           \* interval timers registered with setInterval
  live,             \* requests in flight whose component is still mounted
  orphan,           \* requests in flight whose component has been unmounted
  sent,             \* the requests the last step handed to fetch
  pollHistory,      \* history: how the polling of the mounted page went so far
  session,          \* history: the token the last successful login of this visit
                    \* returned, "logout" once a logout completed after it,
                    \* "none" before the first login
  lastAction        \* history: the handler step taken last and how its request ended

ctrlVars == <<storage, currentPage, isAuthenticated, loadingApp>>
compVars == <<login, dashboard, logs, orders, payments, settings, clients>>
viewVars == <<currentPage, isAuthenticated, loadingApp, mounted, login, dashboard,
              logs, orders, payments, settings, clients>>
vars == <<storage, currentPage, isAuthenticated, loadingApp, checkPc, logoutPending,
          mounted, login, loginPending, dashboard, logs, orders, payments, settings,
          clients, timers, live, orphan, sent, pollHistory, session, lastAction>>

\* a handler step, the outcome of the request it continues and the timer or
\* fetcher it is about ("-" when none)
ActOn(n, o, x) == [name |-> n, outcome |-> o, of |-> x]

Act(n, o) == ActOn(n, o, "-")

(***************************************************************************)
(* Initial state of each component (its useState initialisers).            *)
(***************************************************************************)
LoginInit == [error |-> "", loading |-> FALSE]

DashboardInit ==
  [botStatus |-> "Loading...", lastRunTime |-> "N/A", numOrders |-> 0, numPayments |-> 0,
   loading |-> FALSE, message |-> "", logMessages |-> <<>>]

LogsInit == [logMessages |-> <<>>, loading |-> TRUE, error |-> ""]

OrdersInit == [orders |-> <<>>, loading |-> TRUE, error |-> ""]

PaymentsInit == [payments |-> <<>>, loading |-> TRUE, error |-> ""]

\* the secret fields of the configuration and the switch that shows the
\* e-mail fields; the other text fields are handled like the secret ones
ConfigInit ==
  [bybitApiSecret |-> "", paystackSecretKey |-> "", email_password |-> "",
   email_alerts_enabled |-> FALSE]

SettingsInit == [config |-> ConfigInit, loading |-> TRUE, message |-> "", error |-> ""]

NewClientInit == [name |-> "", account |-> "", bank |-> "", amount |-> ""]

ClientsInit ==
  [clients |-> <<>>, loading |-> TRUE, error |-> "", message |-> "",
   newClient |-> NewClientInit]

NoRequests == [f \in Requests |-> 0]

RECURSIVE SumOver(_, _)
SumOver(fn, S) ==
  IF S = {} THEN 0
  ELSE LET x == CHOOSE y \in S : TRUE IN fn[x] + SumOver(fn, S \ {x})

InFlight(l, o) == SumOver(l, Requests) + SumOver(o, Requests)

\* the requests the bounds MaxInFlight and MaxOrphanWrites count
Counted(l, o) == SumOver(l, Requests) + SumOver(o, Fetchers)

OrphanWrites(o) == SumOver(o, Writers)


(***************************************************************************)
(* App.renderPage: the view rendered for given values of App's state.      *)
(***************************************************************************)
\* variant: the switch has no default case that renders the Dashboard
RenderPage_NoDefault(loading, authenticated, page) ==
  IF loading THEN "Loading application..."
  ELSE IF ~authenticated THEN "Login"
  ELSE IF page \in Pages THEN page ELSE "Login"

RenderPage(loading, authenticated, page) ==
  IF loading THEN "Loading application..."
  ELSE IF ~authenticated THEN "Login"
  ELSE CASE page = "Dashboard" -> "Dashboard"
         [] page = "Settings"  -> "Settings"
         [] page = "Clients"   -> "Clients"
         [] page = "Orders"    -> "Orders"
         [] page = "Payments"  -> "Payments"
         [] page = "Logs"      -> "Logs"
         [] OTHER              -> "Dashboard"

\* variant: the navigation bar is rendered unconditionally
NavRendered_Always == TRUE

\* the navigation bar is rendered
NavRendered == isAuthenticated

\* the state of the controller, read off App's state as renderPage tests it
ControllerState(loading, authenticated) ==
  IF loading THEN "CHECKING"
  ELSE IF authenticated THEN "AUTHENTICATED" ELSE "UNAUTHENTICATED"

(***************************************************************************)
(* The synchronous head of each read fetcher, up to its await: the state   *)
(* it leaves in the component and whether it issues the request.           *)
(***************************************************************************)
\* variant: the token read from storage is not tested
HasToken_Always(tok) == TRUE

\* the truthiness test of the token read from storage: if (token)
HasToken(tok) == tok # None

\* the handlers that read the token, return early when there is none and
\* send it as the Authorization header; the others neither read nor send it
NeedsToken(f) ==
  f \in {"Logs.fetchBotLogs", "Payments.fetchPayments", "Settings.fetchConfig",
         "Settings.handleSubmit"}

\* variant: the request is issued whether or not there is a token
Issues_Always(f, tok) == TRUE

\* f goes on to its fetch
Issues(f, tok) == NeedsToken(f) => HasToken(tok)

\* the bearer token of the Authorization header (None: no such header)
AuthHeader(f, tok) == IF NeedsToken(f) THEN tok ELSE None

\* a request of App itself, with the Authorization header it sets
AppReq(method, ep, tok) ==
  [by |-> "App", method |-> method, ep |-> ep, auth |-> tok, body |-> "-"]

\* the request f hands to fetch
Req(f, tok, body) ==
  [by |-> f, method |-> Method(f), ep |-> Endpoint(f), auth |-> AuthHeader(f, tok),
   body |-> body]

\* Logs.fetchBotLogs, Payments.fetchPayments and Settings.fetchConfig: clear
\* the error, raise loading, then check the token
GuardedFetchHead(c, tok) ==
  IF HasToken(tok)
  THEN [c EXCEPT !.error = "", !.loading = TRUE]
  ELSE [c EXCEPT !.error = MissingTokenMsg, !.loading = FALSE]

\* Orders.fetchOrders and Clients.fetchClients: no token check
OrdersFetchHead(c) == [c EXCEPT !.loading = TRUE, !.error = ""]

(***************************************************************************)
(* Mounting and unmounting.                                                *)
(***************************************************************************)
\* the interval timers a component's effect registers
MountTimers(view) == {t \in Timers : Owner(TimerFetcher(t)) = view}
\* variant: the effect cleanup does not clear the intervals
CleanupTimers_None(ts, view) == ts

\* the timers left after the effect cleanups of the unmounted component ran
CleanupTimers(ts, view) == ts \ MountTimers(view)

\* the requests the effects of a freshly mounted component issue
MountRequests(view, tok) ==
  [f \in Requests |-> IF f \in Fetchers /\ Owner(f) = view /\ Issues(f, tok) THEN 1
                      ELSE 0]

\* React's commit after App's state became (loading, authenticated, page) with
\* tok in storage: when the rendered view changes, the old component is
\* unmounted (its state is dropped, its requests are orphaned, its timers are
\* cleared) and the new one is mounted and runs its effects
Commit(loading, authenticated, page, tok) ==
  LET new == RenderPage(loading, authenticated, page) IN
  IF new = mounted
  THEN /\ sent' = {}
       /\ UNCHANGED <<mounted, pollHistory, login, dashboard, logs, orders, payments, settings,
                       clients, timers, live, orphan>>
  ELSE /\ mounted' = new
       /\ login' = LoginInit
       /\ dashboard' = DashboardInit
       /\ logs' = IF new = "Logs" THEN GuardedFetchHead(LogsInit, tok) ELSE LogsInit
       /\ orders' = IF new = "Orders" THEN OrdersFetchHead(OrdersInit) ELSE OrdersInit
       /\ payments' = IF new = "Payments" THEN GuardedFetchHead(PaymentsInit, tok)
                      ELSE PaymentsInit
       /\ settings' = IF new = "Settings" THEN GuardedFetchHead(SettingsInit, tok)
                      ELSE SettingsInit
       /\ clients' = IF new = "Clients" THEN OrdersFetchHead(ClientsInit)
                     ELSE ClientsInit
       /\ timers' = CleanupTimers(timers, mounted) \cup MountTimers(new)
       /\ live' = MountRequests(new, tok)
       /\ orphan' = [f \in Requests |-> orphan[f] + live[f]]
       /\ sent' = {Req(f, tok, "-") : f \in {g \in Requests : live'[g] > 0}}
       /\ pollHistory' = "fresh"
       /\ Counted(live', orphan') <= MaxInFlight
       /\ OrphanWrites(orphan') <= MaxOrphanWrites

(***************************************************************************)
(* Initial state: App constructed, nothing mounted below the loading text, *)
(* localStorage as a previous visit left it.                               *)
(***************************************************************************)
Init ==
  /\ storage \in Tokens \cup {None}
  /\ currentPage = "Login"
  /\ isAuthenticated = FALSE
  /\ loadingApp = TRUE
  /\ checkPc = "start"
  /\ logoutPending = 0
  /\ mounted = RenderPage(TRUE, FALSE, "Login")
  /\ login = LoginInit
  /\ loginPending = FALSE
  /\ dashboard = DashboardInit
  /\ logs = LogsInit
  /\ orders = OrdersInit
  /\ payments = PaymentsInit
  /\ settings = SettingsInit
  /\ clients = ClientsInit
  /\ timers = {}
  /\ live = NoRequests
  /\ orphan = NoRequests
  /\ sent = {}
  /\ pollHistory = "fresh"
  /\ session = "none"
  /\ lastAction = Act("init", "-")

(***************************************************************************)
(* App.checkAuthStatus                                                     *)
(***************************************************************************)
\* variant: the accepted branch does not select the landing page
CheckOkPage_Login == "Login"

\* the page selected when the backend accepted the stored token
CheckOkPage == "Dashboard"
\* variant: the catch branch of checkAuthStatus removes the item
CheckCatchStorage_Cleared(tok) == None

\* what the catch branch leaves in storage
CheckCatchStorage(tok) == tok
\* variant: the rejected branch of checkAuthStatus keeps the item
CheckRejectStorage_Kept(tok) == tok

\* what the rejected (non-OK) branch leaves in storage
CheckRejectStorage(tok) == None

\* the effect runs checkAuthStatus up to its await
CheckAuthStart ==
  /\ checkPc = "start"
  /\ lastAction' = Act("checkAuthStatus", "-")
  /\ IF HasToken(storage)
     THEN /\ checkPc' = "await"
          /\ sent' = {AppReq("GET", "/api/status", storage)}
          /\ UNCHANGED <<storage, currentPage, isAuthenticated, loadingApp, mounted, pollHistory,
                         login, dashboard, logs, orders, payments, settings, clients,
                         timers, live, orphan>>
     ELSE /\ checkPc' = "done"
          /\ isAuthenticated' = FALSE
          /\ currentPage' = "Login"
          /\ loadingApp' = FALSE
          /\ UNCHANGED storage
          /\ Commit(FALSE, FALSE, "Login", storage)
  /\ UNCHANGED <<logoutPending, loginPending, session>>

\* GET /api/status of the check resolves; only response.ok is read
CheckAuthResolve(outcome) ==
  /\ checkPc = "await"
  /\ checkPc' = "done"
  /\ loadingApp' = FALSE
  /\ CASE outcome \in {"ok", "okBadBody"} ->
            /\ isAuthenticated' = TRUE
            /\ currentPage' = CheckOkPage
            /\ UNCHANGED storage
       [] outcome \in {"err", "errNoMsg", "errBadBody"} ->
            /\ storage' = CheckRejectStorage(storage)
            /\ isAuthenticated' = FALSE
            /\ currentPage' = "Login"
       [] outcome = "network" ->
            /\ storage' = CheckCatchStorage(storage)
            /\ isAuthenticated' = FALSE
            /\ currentPage' = "Login"
  /\ lastAction' = Act("checkAuthStatus:resolve", outcome)
  /\ Commit(loadingApp', isAuthenticated', currentPage', storage')
  /\ UNCHANGED <<logoutPending, loginPending, session>>

(***************************************************************************)
(* Login.handleSubmit and App.handleLoginSuccess                           *)
(***************************************************************************)
LoginNetworkMsg == "Network error or server unreachable. Please try again later."
LoginFallbackMsg == "Login failed. Please try again."

\* variant: handleLoginSuccess does not write the item
LoginSuccessStorage_NotStored(tok) == None

\* handleLoginSuccess: the item written to storage and the page selected
LoginSuccessStorage(tok) == tok
\* variant: handleLoginSuccess does not select the landing page
LoginSuccessPage_Login == "Login"

LoginSuccessPage == "Dashboard"
\* variant: response.ok is not tested, any parsed answer counts as a success
LoginAccepted_AnyParsed(outcome) == outcome \in {"ok", "err", "errNoMsg"}

\* the answer was parsed and response.ok holds: onLoginSuccess is called
LoginAccepted(outcome) == outcome = "ok"

\* the error Login shows for an outcome that is not a success
LoginError(outcome) ==
  CASE outcome = "err"      -> ServerMsg
    [] outcome = "errNoMsg" -> LoginFallbackMsg
    [] OTHER                -> LoginNetworkMsg

\* the form is submitted (the button is disabled while loading)
LoginSubmit ==
  /\ mounted = "Login"
  /\ ~login.loading
  /\ login' = [error |-> "", loading |-> TRUE]
  /\ loginPending' = TRUE
  /\ lastAction' = Act("Login.handleSubmit", "-")
  /\ sent' = {[by |-> "Login.handleSubmit", method |-> "POST", ep |-> "/api/login",
               auth |-> None, body |-> "-"]}
  /\ UNCHANGED <<session, storage, currentPage, isAuthenticated, loadingApp, checkPc,
                 logoutPending, mounted, pollHistory, dashboard, logs, orders, payments, settings,
                 clients, timers, live, orphan>>

\* POST /api/login resolves; tok is the token of a successful answer
LoginResolve(outcome, tok) ==
  /\ loginPending
  /\ loginPending' = FALSE
  /\ lastAction' = Act("Login.handleSubmit:resolve", outcome)
  /\ session' = IF outcome = "ok" THEN tok ELSE session
  /\ IF LoginAccepted(outcome)
     THEN /\ storage' = LoginSuccessStorage(tok)
          /\ isAuthenticated' = TRUE
          /\ currentPage' = LoginSuccessPage
          /\ Commit(loadingApp, TRUE, currentPage', storage')
     ELSE /\ login' = [error |-> LoginError(outcome), loading |-> FALSE]
          /\ sent' = {}
          /\ UNCHANGED <<storage, currentPage, isAuthenticated, mounted, pollHistory, dashboard,
                         logs, orders, payments, settings, clients, timers, live,
                         orphan>>
  /\ UNCHANGED <<loadingApp, checkPc, logoutPending>>

(***************************************************************************)
(* App.handleLogout                                                        *)
(***************************************************************************)
\* variant: handleLogout does not remove the item after the awaited call
LogoutDoneStorage_Kept(tok) == tok

\* what is left in storage when the awaited /api/logout returned a response
LogoutDoneStorage(tok) == None
\* variant: the catch branch of handleLogout does not remove the item
LogoutCatchStorage_Kept(tok) == tok

\* what is left in storage when the awaited /api/logout threw
LogoutCatchStorage(tok) == None

\* the Logout button of the navigation bar is clicked
LogoutClick ==
  /\ NavRendered
  /\ lastAction' = Act("handleLogout", "-")
  /\ IF HasToken(storage)
     THEN /\ logoutPending < MaxLogout
          /\ logoutPending' = logoutPending + 1
          /\ sent' = {AppReq("POST", "/api/logout", storage)}
          /\ UNCHANGED <<session, storage, currentPage, isAuthenticated, mounted, pollHistory, login,
                         dashboard, logs, orders, payments, settings, clients, timers,
                         live, orphan>>
     ELSE /\ storage' = None
          /\ isAuthenticated' = FALSE
          /\ currentPage' = "Login"
          /\ session' = "logout"
          /\ Commit(loadingApp, FALSE, "Login", None)
          /\ UNCHANGED logoutPending
  /\ UNCHANGED <<loadingApp, checkPc, loginPending>>

\* POST /api/logout resolves (with any status) or throws
LogoutResolve(outcome) ==
  /\ logoutPending > 0
  /\ logoutPending' = logoutPending - 1
  /\ storage' = IF outcome = "network" THEN LogoutCatchStorage(storage)
                ELSE LogoutDoneStorage(storage)
  /\ isAuthenticated' = FALSE
  /\ currentPage' = "Login"
  /\ lastAction' = Act("handleLogout:resolve", outcome)
  /\ session' = "logout"
  /\ Commit(loadingApp, FALSE, "Login", storage')
  /\ UNCHANGED <<loadingApp, checkPc, loginPending>>

(***************************************************************************)
(* Page selection                                                          *)
(***************************************************************************)
\* setCurrentPage(page)
SetCurrentPage(page) ==
  /\ currentPage' = page
  /\ lastAction' = Act("setCurrentPage", "-")
  /\ Commit(loadingApp, isAuthenticated, page, storage)
  /\ UNCHANGED <<session, storage, isAuthenticated, loadingApp, checkPc, logoutPending,
                 loginPending>>

\* a page button of the navigation bar is clicked
NavClick(page) ==
  /\ NavRendered
  /\ SetCurrentPage(page)

(***************************************************************************)
(* Interval timers                                                         *)
(***************************************************************************)
\* a registered interval timer fires and calls its fetcher; the state updates
\* of a fetcher whose component is unmounted are dropped by React
Tick(t) ==
  LET f == TimerFetcher(t) IN
  /\ t \in timers
  /\ Counted(live, orphan) < MaxInFlight
  /\ IF Owner(f) = mounted
     THEN /\ live' = [live EXCEPT ![f] = IF Issues(f, storage) THEN @ + 1 ELSE @]
          /\ logs' = IF f = "Logs.fetchBotLogs" THEN GuardedFetchHead(logs, storage)
                     ELSE logs
          /\ orders' = IF f = "Orders.fetchOrders" THEN OrdersFetchHead(orders)
                       ELSE orders
          /\ payments' = IF f = "Payments.fetchPayments"
                         THEN GuardedFetchHead(payments, storage) ELSE payments
          /\ UNCHANGED orphan
     ELSE /\ orphan' = [orphan EXCEPT ![f] = IF Issues(f, storage) THEN @ + 1 ELSE @]
          /\ UNCHANGED <<live, logs, orders, payments>>
  /\ lastAction' = ActOn("tick", "-", t)
  /\ sent' = IF Issues(f, storage) THEN {Req(f, storage, "-")} ELSE {}
  /\ UNCHANGED <<session, storage, currentPage, isAuthenticated, loadingApp, checkPc,
                 logoutPending, mounted, pollHistory, login, loginPending, dashboard, settings,
                 clients, timers>>

(***************************************************************************)
(* Continuations of the read fetchers after their await                    *)
(***************************************************************************)
\* variant: the branch of an OK answer also clears the error
ReadResolved_ClearsError(c, field, outcome, payload, fallback, netmsg) ==
  CASE outcome = "ok"       -> [c EXCEPT ![field] = payload, !.error = "", !.loading = FALSE]
    [] outcome = "err"      -> [c EXCEPT !.error = ServerMsg, !.loading = FALSE]
    [] outcome = "errNoMsg" -> [c EXCEPT !.error = fallback, !.loading = FALSE]
    [] OTHER                -> [c EXCEPT !.error = netmsg, !.loading = FALSE]

\* the try/catch/finally of Logs.fetchBotLogs, Orders.fetchOrders,
\* Payments.fetchPayments, Settings.fetchConfig and Clients.fetchClients:
\* field receives the payload of an OK answer, error the message otherwise
ReadResolved(c, field, outcome, payload, fallback, netmsg) ==
  CASE outcome = "ok"       -> [c EXCEPT ![field] = payload, !.loading = FALSE]
    [] outcome = "err"      -> [c EXCEPT !.error = ServerMsg, !.loading = FALSE]
    [] outcome = "errNoMsg" -> [c EXCEPT !.error = fallback, !.loading = FALSE]
    [] OTHER                -> [c EXCEPT !.error = netmsg, !.loading = FALSE]

\* Dashboard.fetchBotStatus after its await
StatusResolved(c, outcome, data) ==
  CASE outcome = "ok" ->
         [c EXCEPT !.botStatus = data.status,
                   !.lastRunTime = IF data.lastRunTime = "" THEN "N/A"
                                   ELSE data.lastRunTime,
                   !.numOrders = data.numOrders,
                   !.numPayments = data.numPayments]
    [] outcome \in {"err", "errNoMsg", "errBadBody"} ->
         [c EXCEPT !.botStatus = "Error (API)"]
    [] OTHER -> [c EXCEPT !.botStatus = "Error (Network)"]

\* Dashboard.fetchBotLogs after its await
DashboardLogsResolved(c, outcome, data) ==
  IF outcome = "ok" THEN [c EXCEPT !.logMessages = data] ELSE c

\* variant: a page handler removes the token when the server rejects its request
PageStorage_ClearedOnReject(tok, outcome) == IF outcome \in HttpErrors THEN None ELSE tok

\* the item 'token' after the continuation of a page handler: the page
\* components only read it (localStorage.getItem), whatever the answer
PageStorage(tok, outcome) == tok

\* variant: a page handler ends the session when the server rejects its request
PageSession_EndedOnReject(authenticated, outcome) ==
  IF outcome \in HttpErrors THEN FALSE ELSE authenticated

\* App's isAuthenticated after the continuation of a page handler: the pages
\* are handed onLogout but take no props (or only setCurrentPage) and call
\* nothing of App, whatever the answer
PageSession(authenticated, outcome) == authenticated

\* the fetchers of the pages that show a list and poll it
PollFetchers == {"Logs.fetchBotLogs", "Orders.fetchOrders", "Payments.fetchPayments"}

\* history of the polling of the mounted page, after an answer that leaves
\* left requests of its fetcher in flight: "fresh" while the request the mount
\* issued may be in flight; "failed" when the page has been without a request
\* since a failure and no later answer was a success (every request in flight
\* was then issued by a tick that followed the failure); "recovered" when a
\* success was answered in that situation; "quiet" when the page has been
\* without a request since a success (in the last two, too, every request in
\* flight was issued by a tick)
PollHistory(h, outcome, left) ==
  IF outcome # "ok" THEN (IF left = 0 THEN "failed" ELSE h)
  ELSE IF h = "failed" THEN "recovered"
  ELSE IF left = 0 THEN "quiet" ELSE h

\* the page state a polling fetcher writes and the list it fills
PollPage(f) ==
  CASE f = "Logs.fetchBotLogs"      -> logs
    [] f = "Orders.fetchOrders"     -> orders
    [] f = "Payments.fetchPayments" -> payments

PollData(f) ==
  CASE f = "Logs.fetchBotLogs"      -> logs.logMessages
    [] f = "Orders.fetchOrders"     -> orders.orders
    [] f = "Payments.fetchPayments" -> payments.payments

\* what a polling page renders in its card: the spinner while loading, else
\* the error when there is one, else the list
Displayed(c, data) ==
  IF c.loading THEN "spinner" ELSE IF c.error # "" THEN c.error ELSE data

\* a request of fetcher f, issued by the mounted component, resolves
Settle(f, outcome) ==
  /\ live[f] > 0
  /\ live' = [live EXCEPT ![f] = @ - 1]
  /\ lastAction' = ActOn("resolve", outcome, f)
  /\ sent' = {}
  /\ storage' = PageStorage(storage, outcome)
  /\ isAuthenticated' = PageSession(isAuthenticated, outcome)
  /\ pollHistory' = IF f \in PollFetchers
                    THEN PollHistory(pollHistory, outcome, live'[f]) ELSE pollHistory
  /\ UNCHANGED <<session, currentPage, loadingApp, checkPc, logoutPending, mounted,
                 login, loginPending, timers, orphan>>

FetchBotStatusResolve(outcome, data) ==
  /\ Settle("Dashboard.fetchBotStatus", outcome)
  /\ dashboard' = StatusResolved(dashboard, outcome, data)
  /\ UNCHANGED <<logs, orders, payments, settings, clients>>

DashboardLogsResolve(outcome, data) ==
  /\ Settle("Dashboard.fetchBotLogs", outcome)
  /\ dashboard' = DashboardLogsResolved(dashboard, outcome, data)
  /\ UNCHANGED <<logs, orders, payments, settings, clients>>

LogsResolve(outcome, data) ==
  /\ Settle("Logs.fetchBotLogs", outcome)
  /\ logs' = ReadResolved(logs, "logMessages", outcome, data, "Failed to fetch logs.",
                "Network error or server unreachable. Could not load logs.")
  /\ UNCHANGED <<dashboard, orders, payments, settings, clients>>

OrdersResolve(outcome, data) ==
  /\ Settle("Orders.fetchOrders", outcome)
  /\ orders' = ReadResolved(orders, "orders", outcome, data,
                  "Failed to fetch orders (no authentication required).",
                  "Network error or server unreachable. Could not load orders.")
  /\ UNCHANGED <<dashboard, logs, payments, settings, clients>>

PaymentsResolve(outcome, data) ==
  /\ Settle("Payments.fetchPayments", outcome)
  /\ payments' = ReadResolved(payments, "payments", outcome, data,
                    "Failed to fetch payments.",
                    "Network error or server unreachable. Could not load payments.")
  /\ UNCHANGED <<dashboard, logs, orders, settings, clients>>

ConfigResolve(outcome, data) ==
  /\ Settle("Settings.fetchConfig", outcome)
  /\ settings' = ReadResolved(settings, "config", outcome, data,
                    "Failed to fetch configuration.",
                    "Network error or server unreachable. Could not load configuration.")
  /\ UNCHANGED <<dashboard, logs, orders, payments, clients>>

ClientsResolve(outcome, data) ==
  /\ Settle("Clients.fetchClients", outcome)
  /\ clients' = ReadResolved(clients, "clients", outcome, data,
                   "Failed to fetch clients (no authentication required).",
                   "Network error or server unreachable. Could not load clients.")
  /\ UNCHANGED <<dashboard, logs, orders, payments, settings>>

\* a state update of a component instance that has been unmounted: React
\* ignores it, the state c shown for that component is not replaced by updated
DroppedUpdate(c, updated) == c

\* a request whose component has been unmounted resolves: the continuation
\* runs and calls the state setters of the unmounted instance
OrphanResolve(f, outcome, data, sdata, cdata) ==
  /\ orphan[f] > 0
  /\ orphan' = [orphan EXCEPT ![f] = @ - 1]
  /\ lastAction' = ActOn("resolve:unmounted", "-", f)
  /\ sent' = {}
  /\ dashboard' =
       CASE f = "Dashboard.fetchBotStatus" ->
              DroppedUpdate(dashboard, StatusResolved(dashboard, outcome, sdata))
         [] f = "Dashboard.fetchBotLogs" ->
              DroppedUpdate(dashboard, DashboardLogsResolved(dashboard, outcome, data))
         [] OTHER -> dashboard
  /\ logs' = IF f = "Logs.fetchBotLogs"
             THEN DroppedUpdate(logs, ReadResolved(logs, "logMessages", outcome, data,
                    "Failed to fetch logs.",
                    "Network error or server unreachable. Could not load logs."))
             ELSE logs
  /\ orders' = IF f = "Orders.fetchOrders"
               THEN DroppedUpdate(orders, ReadResolved(orders, "orders", outcome, data,
                      "Failed to fetch orders (no authentication required).",
                      "Network error or server unreachable. Could not load orders."))
               ELSE orders
  /\ payments' = IF f = "Payments.fetchPayments"
                 THEN DroppedUpdate(payments, ReadResolved(payments, "payments", outcome,
                        data, "Failed to fetch payments.",
                        "Network error or server unreachable. Could not load payments."))
                 ELSE payments
  /\ settings' = IF f = "Settings.fetchConfig"
                 THEN DroppedUpdate(settings, ReadResolved(settings, "config", outcome,
                        cdata, "Failed to fetch configuration.",
                        "Network error or server unreachable. Could not load configuration."))
                 ELSE settings
  /\ clients' = IF f = "Clients.fetchClients"
                THEN DroppedUpdate(clients, ReadResolved(clients, "clients", outcome, data,
                       "Failed to fetch clients (no authentication required).",
                       "Network error or server unreachable. Could not load clients."))
                ELSE clients
  /\ UNCHANGED <<session, storage, currentPage, isAuthenticated, loadingApp, checkPc,
                 logoutPending, mounted, pollHistory, login, loginPending, timers, live>>

(***************************************************************************)
(* Write handlers of the page components                                   *)
(***************************************************************************)
\* the read fetcher a write handler calls after an OK answer
Refetch(f) ==
  CASE f \in {"Dashboard.handleRunBot", "Dashboard.handleStopBot"} ->
         "Dashboard.fetchBotStatus"
    [] f \in {"Clients.handleAddClient", "Clients.handleRemoveClient"} ->
         "Clients.fetchClients"
    [] f = "Settings.handleSubmit" -> "Settings.fetchConfig"

\* variant: the list is not fetched again after a write
Refetches_Never(outcome) == FALSE

\* the write handler's continuation reaches its call of the read fetcher
Refetches(outcome) == outcome = "ok"

\* a write handler of the mounted component issues its request
IssueWrite(f, body) ==
  /\ Owner(f) = mounted
  /\ Counted(live, orphan) < MaxInFlight
  /\ live' = [live EXCEPT ![f] = @ + 1]
  /\ sent' = {Req(f, storage, body)}
  /\ UNCHANGED <<session, storage, currentPage, isAuthenticated, loadingApp, checkPc,
                 logoutPending, mounted, pollHistory, login, loginPending, timers, orphan>>

\* a request of write handler f, issued by the mounted component, resolves;
\* after an OK answer the handler calls its read fetcher
SettleWrite(f, outcome) ==
  LET again == Refetches(outcome) /\ Issues(Refetch(f), storage) IN
  /\ live[f] > 0
  /\ live' = IF again THEN [live EXCEPT ![f] = @ - 1, ![Refetch(f)] = @ + 1]
             ELSE [live EXCEPT ![f] = @ - 1]
  /\ sent' = IF again THEN {Req(Refetch(f), storage, "-")} ELSE {}
  /\ lastAction' = ActOn("resolve", outcome, f)
  /\ storage' = PageStorage(storage, outcome)
  /\ isAuthenticated' = PageSession(isAuthenticated, outcome)
  /\ UNCHANGED <<session, currentPage, loadingApp, checkPc, logoutPending, mounted,
                 pollHistory, login, loginPending, timers, orphan>>

\* ---- Dashboard: Run Bot and Stop Bot -------------------------------------
\* botStatus.startsWith(prefix), over the status texts the model uses
StartsWith(status, prefix) ==
  CASE prefix = "Running" -> status = "Running (cycle 3)"
    [] prefix = "Stopped" -> status = "Stopped by user"
    [] OTHER              -> FALSE

\* the disabled attribute of the two buttons
RunDisabled(c) == c.loading \/ StartsWith(c.botStatus, "Running")

StopDisabled(c) ==
  c.loading \/ StartsWith(c.botStatus, "Stopped") \/ StartsWith(c.botStatus, "Idle")

\* data.message of a parsed body without a message field
Undefined == "undefined"

\* handleRunBot and handleStopBot after their await: the message of any parsed
\* body is shown, a failed fetch or parse shows failmsg, loading is lowered
BotResolved(c, outcome, failmsg) ==
  [c EXCEPT !.message = CASE outcome \in {"ok", "err"} -> ServerMsg
                          [] outcome = "errNoMsg"      -> Undefined
                          [] OTHER                     -> failmsg,
            !.loading = FALSE]

BotClick(f) ==
  /\ IssueWrite(f, "-")
  /\ dashboard' = [dashboard EXCEPT !.loading = TRUE, !.message = ""]
  /\ lastAction' = Act(f, "-")
  /\ UNCHANGED <<logs, orders, payments, settings, clients>>

handleRunBot ==
  /\ mounted = "Dashboard"
  /\ ~RunDisabled(dashboard)
  /\ BotClick("Dashboard.handleRunBot")

handleStopBot ==
  /\ mounted = "Dashboard"
  /\ ~StopDisabled(dashboard)
  /\ BotClick("Dashboard.handleStopBot")

RunBotResolve(outcome) ==
  /\ SettleWrite("Dashboard.handleRunBot", outcome)
  /\ dashboard' = BotResolved(dashboard, outcome,
                    "Failed to trigger bot run. Network error or server unreachable.")
  /\ UNCHANGED <<logs, orders, payments, settings, clients>>

StopBotResolve(outcome) ==
  /\ SettleWrite("Dashboard.handleStopBot", outcome)
  /\ dashboard' = BotResolved(dashboard, outcome,
                    "Failed to send stop signal. Network error or server unreachable.")
  /\ UNCHANGED <<logs, orders, payments, settings, clients>>

\* a request of write handler f whose component has been unmounted resolves:
\* the continuation runs, its state updates are dropped, and after an OK
\* answer it still calls the read fetcher of the unmounted instance
OrphanWriteResolve(f, outcome) ==
  LET again == Refetches(outcome) /\ Issues(Refetch(f), storage) IN
  /\ orphan[f] > 0
  /\ orphan' = IF again THEN [orphan EXCEPT ![f] = @ - 1, ![Refetch(f)] = @ + 1]
               ELSE [orphan EXCEPT ![f] = @ - 1]
  /\ Counted(live, orphan') <= MaxInFlight
  /\ sent' = IF again THEN {Req(Refetch(f), storage, "-")} ELSE {}
  /\ lastAction' = ActOn("resolve:unmounted", "-", f)
  /\ dashboard' = DroppedUpdate(dashboard, BotResolved(dashboard, outcome, ""))
  /\ UNCHANGED <<session, storage, currentPage, isAuthenticated, loadingApp, checkPc,
                 logoutPending, mounted, pollHistory, login, loginPending, timers, live,
                 logs, orders, payments, settings, clients>>

\* ---- Dashboard: the View All Logs button ----------------------------------
\* the props App passes to the Dashboard element
DashboardProps == {"onLogout"}

\* onClick={() => setCurrentPage('Logs')}: setCurrentPage is the prop of that
\* name; calling it when it was not passed (undefined) throws a TypeError in
\* the event handler, which React reports and which changes no state
ViewAllLogs ==
  /\ mounted = "Dashboard"
  /\ IF "setCurrentPage" \in DashboardProps
     THEN /\ lastAction' = Act("Dashboard.viewAllLogs", "-")
          /\ currentPage' = "Logs"
          /\ Commit(loadingApp, isAuthenticated, "Logs", storage)
          /\ UNCHANGED <<session, storage, isAuthenticated, loadingApp, checkPc,
                         logoutPending, loginPending>>
     ELSE /\ lastAction' = Act("Dashboard.viewAllLogs", "TypeError")
          /\ sent' = {}
          /\ UNCHANGED <<session, storage, currentPage, isAuthenticated, loadingApp,
                         checkPc, logoutPending, mounted, pollHistory, login,
                         loginPending, timers, live, orphan, dashboard, logs, orders,
                         payments, settings, clients>>

\* ---- Clients and Settings: what the continuation of a write shows --------
\* handleAddClient, handleRemoveClient and Settings.handleSubmit after their
\* await: the body is parsed first, then response.ok is tested
WriteResolved(c, outcome, fallback, netmsg) ==
  CASE outcome = "ok"       -> [c EXCEPT !.message = ServerMsg]
    [] outcome = "err"      -> [c EXCEPT !.error = ServerMsg]
    [] outcome = "errNoMsg" -> [c EXCEPT !.error = fallback]
    [] OTHER                -> [c EXCEPT !.error = netmsg]

\* ---- Clients: the add form -----------------------------------------------
ClientFields == {"name", "account", "bank", "amount"}
\* what the operator can type into a field of the add form
FieldValues == {"", "v"}

\* the forms the operator builds: the fields are filled in their order in the
\* form and emptied in the reverse order
FieldOrder == <<"name", "account", "bank", "amount">>

Forms ==
  { [k \in ClientFields |->
       IF \E i \in 1..n : FieldOrder[i] = k THEN "v" ELSE ""] : n \in 0..Len(FieldOrder) }

\* Clients.handleInputChange
ClientsInputChange(field, value) ==
  /\ mounted = "Clients"
  /\ clients.newClient[field] # value
  /\ [clients.newClient EXCEPT ![field] = value] \in Forms
  /\ clients' = [clients EXCEPT !.newClient[field] = value]
  /\ lastAction' = Act("Clients.handleInputChange", "-")
  /\ sent' = {}
  /\ UNCHANGED <<session, storage, currentPage, isAuthenticated, loadingApp, checkPc,
                 logoutPending, mounted, pollHistory, login, loginPending, timers, live, orphan,
                 dashboard, logs, orders, payments, settings>>

\* variant: the inputs of the form are not marked required
FormValid_NoGate(nc) == TRUE

\* the browser's validation of the four required inputs: the submit event,
\* and with it handleAddClient, is withheld while one of them is empty
FormValid(nc) == \A k \in ClientFields : nc[k] # ""

\* the form is submitted while an input is invalid: the browser reports the
\* input and fires no submit event
SubmitInvalidForm ==
  /\ mounted = "Clients"
  /\ ~FormValid(clients.newClient)
  /\ lastAction' = Act("Clients.submit", "invalid")
  /\ sent' = {}
  /\ UNCHANGED <<session, storage, currentPage, isAuthenticated, loadingApp, checkPc,
                 logoutPending, mounted, pollHistory, login, loginPending, timers, live, orphan,
                 dashboard, logs, orders, payments, settings, clients>>

\* the form is submitted: handleAddClient up to its await
handleAddClient ==
  /\ mounted = "Clients"
  /\ FormValid(clients.newClient)
  /\ IssueWrite("Clients.handleAddClient", clients.newClient)
  /\ clients' = [clients EXCEPT !.message = "", !.error = ""]
  /\ lastAction' = Act("Clients.handleAddClient", "-")
  /\ UNCHANGED <<dashboard, logs, orders, payments, settings>>

\* variant: the form is cleared whatever the answer
AddClientForm_Cleared(c, outcome) == NewClientInit

\* the add form after the answer: cleared after an OK answer only
AddClientForm(c, outcome) == IF outcome = "ok" THEN NewClientInit ELSE c.newClient

\* handleAddClient after its await
AddClientResolved(c, outcome) ==
  LET shown == [WriteResolved(c, outcome, "Failed to add client.",
                   "Network error or server unreachable. Could not add client.")
                 EXCEPT !.newClient = AddClientForm(c, outcome)]
  IN IF Refetches(outcome) THEN OrdersFetchHead(shown) ELSE shown

AddClientResolve(outcome) ==
  /\ SettleWrite("Clients.handleAddClient", outcome)
  /\ clients' = AddClientResolved(clients, outcome)
  /\ UNCHANGED <<dashboard, logs, orders, payments, settings>>

\* ---- Clients: removing a client ------------------------------------------
\* the answers of the confirmation: window.confirm returns true or false; the
\* dialog of the later revision resolves true or false, or its rendering
\* throws (ReactDOM is not imported) and the handler ends there
Answers == {"yes", "no", "throws"}

\* variant: the handler does not test the answer
Proceeds_Always(answer) == TRUE

\* if (!confirmed) return;
Proceeds(answer) == answer = "yes"

\* the Remove buttons are rendered with the table of clients
RemoveRendered(c) == ~c.loading /\ c.error = "" /\ Len(c.clients) > 0

\* a Remove button is clicked and the confirmation is answered:
\* handleRemoveClient up to its await (the request carries the id in its path)
handleRemoveClient(id, answer) ==
  /\ mounted = "Clients"
  /\ RemoveRendered(clients)
  /\ \E i \in 1..Len(clients.clients) : clients.clients[i] = id
  /\ lastAction' = Act("Clients.handleRemoveClient", answer)
  /\ IF Proceeds(answer)
     THEN /\ IssueWrite("Clients.handleRemoveClient", id)
          /\ clients' = [clients EXCEPT !.message = "", !.error = ""]
     ELSE /\ sent' = {}
          /\ UNCHANGED <<session, storage, currentPage, isAuthenticated, loadingApp,
                         checkPc, logoutPending, mounted, pollHistory, login, loginPending, timers,
                         live, orphan, clients>>
  /\ UNCHANGED <<dashboard, logs, orders, payments, settings>>

\* handleRemoveClient after its await
RemoveClientResolved(c, outcome) ==
  LET shown == WriteResolved(c, outcome, "Failed to remove client.",
                  "Network error or server unreachable. Could not remove client.")
  IN IF Refetches(outcome) THEN OrdersFetchHead(shown) ELSE shown

RemoveClientResolve(outcome) ==
  /\ SettleWrite("Clients.handleRemoveClient", outcome)
  /\ clients' = RemoveClientResolved(clients, outcome)
  /\ UNCHANGED <<dashboard, logs, orders, payments, settings>>

\* ---- Settings: the configuration form ------------------------------------
SecretFields == {"bybitApiSecret", "paystackSecretKey", "email_password"}
\* what the operator types into a secret field
Typed == "typed"

\* the form is rendered when loading is lowered; the e-mail fields only while
\* the e-mail alerts are enabled
FieldRendered(c, field) ==
  /\ ~c.loading
  /\ field = "email_password" => c.config.email_alerts_enabled

\* Settings.handleInputChange on a secret field
SettingsInputChange(field) ==
  /\ mounted = "Settings"
  /\ FieldRendered(settings, field)
  /\ settings.config[field] # Typed
  /\ Cardinality({k \in SecretFields : settings.config[k] = Typed}) < MaxEdited
  /\ settings' = [settings EXCEPT !.config[field] = Typed]
  /\ lastAction' = ActOn("Settings.handleInputChange", "-", field)
  /\ sent' = {}
  /\ UNCHANGED <<session, storage, currentPage, isAuthenticated, loadingApp, checkPc,
                 logoutPending, mounted, pollHistory, login, loginPending, timers, live, orphan,
                 dashboard, logs, orders, payments, clients>>

\* Settings.handleInputChange on the checkbox of the e-mail alerts
SettingsToggleAlerts ==
  /\ mounted = "Settings"
  /\ ~settings.loading
  /\ settings' = [settings EXCEPT !.config.email_alerts_enabled = ~@]
  /\ lastAction' = ActOn("Settings.handleInputChange", "-", "email_alerts_enabled")
  /\ sent' = {}
  /\ UNCHANGED <<session, storage, currentPage, isAuthenticated, loadingApp, checkPc,
                 logoutPending, mounted, pollHistory, login, loginPending, timers, live, orphan,
                 dashboard, logs, orders, payments, clients>>

\* the browser's validation of the form: the e-mail password is required
\* while the e-mail alerts are enabled
SettingsFormValid(config) == config.email_alerts_enabled => config.email_password # ""

\* body: JSON.stringify(config)
SubmitBody(config) == config

\* the form is submitted: Settings.handleSubmit up to its await
SettingsHandleSubmit ==
  /\ mounted = "Settings"
  /\ ~settings.loading
  /\ SettingsFormValid(settings.config)
  /\ lastAction' = Act("Settings.handleSubmit", "-")
  /\ IF HasToken(storage)
     THEN /\ IssueWrite("Settings.handleSubmit", SubmitBody(settings.config))
          /\ settings' = [settings EXCEPT !.message = "", !.error = ""]
     ELSE /\ settings' = [settings EXCEPT !.message = "", !.error = MissingTokenMsg]
          /\ sent' = {}
          /\ UNCHANGED <<session, storage, currentPage, isAuthenticated, loadingApp,
                         checkPc, logoutPending, mounted, pollHistory, login, loginPending, timers,
                         live, orphan>>
  /\ UNCHANGED <<dashboard, logs, orders, payments, clients>>

\* Settings.handleSubmit after its await
SubmitResolved(c, outcome, tok) ==
  LET shown == WriteResolved(c, outcome, "Failed to save configuration.",
                  "Network error or server unreachable. Could not save configuration.")
  IN IF Refetches(outcome) THEN GuardedFetchHead(shown, tok) ELSE shown

SettingsSubmitResolve(outcome) ==
  /\ SettleWrite("Settings.handleSubmit", outcome)
  /\ settings' = SubmitResolved(settings, outcome, storage)
  /\ UNCHANGED <<dashboard, logs, orders, payments, clients>>

\* ---- the browser ----------------------------------------------------------
\* the item 'token' is removed from localStorage from outside the program
\* (another tab of the same origin, the browser's site-data controls)
ExternalClear ==
  /\ storage # None
  /\ storage' = None
  /\ lastAction' = Act("storage:cleared", "-")
  /\ sent' = {}
  /\ UNCHANGED <<session, currentPage, isAuthenticated, loadingApp, checkPc,
                 logoutPending, mounted, pollHistory, login, loginPending, timers, live, orphan,
                 dashboard, logs, orders, payments, settings, clients>>

(***************************************************************************)
(* Specifications                                                          *)
(***************************************************************************)
\* the bodies an answer can have: the payload is read from an OK answer only
Bodies(outcome, S) == IF outcome = "ok" THEN S ELSE {CHOOSE x \in S : TRUE}

\* the same, for a handler other than the one the payload belongs to
BodiesOf(f, g, outcome, S) == IF f = g THEN Bodies(outcome, S) ELSE {CHOOSE x \in S : TRUE}

Next ==
  \/ CheckAuthStart
  \/ \E o \in Outcomes : CheckAuthResolve(o)
  \/ LoginSubmit
  \/ \E o \in Outcomes, tok \in Tokens : LoginResolve(o, tok)
  \/ LogoutClick
  \/ \E o \in Outcomes : LogoutResolve(o)
  \/ \E page \in Pages : NavClick(page)
  \/ \E t \in Timers : Tick(t)
  \/ \E o \in Outcomes : \E d \in Bodies(o, StatusPayloads) : FetchBotStatusResolve(o, d)
  \/ \E o \in Outcomes : \E d \in Bodies(o, Payloads) : DashboardLogsResolve(o, d)
  \/ \E o \in Outcomes : \E d \in Bodies(o, Payloads) : LogsResolve(o, d)
  \/ \E o \in Outcomes : \E d \in Bodies(o, Payloads) : OrdersResolve(o, d)
  \/ \E o \in Outcomes : \E d \in Bodies(o, Payloads) : PaymentsResolve(o, d)
  \/ \E o \in Outcomes : \E d \in Bodies(o, ConfigPayloads) : ConfigResolve(o, d)
  \/ \E o \in Outcomes : \E d \in Bodies(o, Payloads) : ClientsResolve(o, d)
  \/ \E f \in Fetchers, o \in Outcomes :
       \E d \in IF f \in {"Dashboard.fetchBotStatus", "Settings.fetchConfig"}
                THEN {<<>>} ELSE Bodies(o, Payloads),
          sd \in BodiesOf(f, "Dashboard.fetchBotStatus", o, StatusPayloads),
          cd \in BodiesOf(f, "Settings.fetchConfig", o, ConfigPayloads) :
         OrphanResolve(f, o, d, sd, cd)

Spec == Init /\ [][Next]_vars

\* setCurrentPage called with a name outside the enumerated set
SelectUnknownPage(page) ==
  /\ isAuthenticated
  /\ SetCurrentPage(page)

NextNav == Next \/ \E page \in UnknownPages : SelectUnknownPage(page)

\* the application driven, in addition, by page selections of arbitrary names
SpecNav == Init /\ [][NextNav]_vars

\* no request of the mounted component is in flight
Idle == SumOver(live, Requests) = 0

\* the operator changes the page, or logs out, while the page is idle
IdleNavClick(page) == Idle /\ NavClick(page)

IdleLogoutClick == Idle /\ LogoutClick

\* /api/logout is answered while the page is idle
IdleLogoutResolve(outcome) == Idle /\ LogoutResolve(outcome)

\* the operator also uses the write controls of the pages, and leaves a page
\* only when its requests have been answered
NextOps ==
  \/ CheckAuthStart
  \/ \E o \in Outcomes : CheckAuthResolve(o)
  \/ LoginSubmit
  \/ \E o \in Outcomes, tok \in Tokens : LoginResolve(o, tok)
  \/ IdleLogoutClick
  \/ \E o \in Outcomes : IdleLogoutResolve(o)
  \/ \E page \in Pages : IdleNavClick(page)
  \/ \E t \in Timers : Tick(t)
  \/ \E o \in Outcomes : \E d \in Bodies(o, StatusPayloads) : FetchBotStatusResolve(o, d)
  \/ \E o \in Outcomes : \E d \in Bodies(o, Payloads) : DashboardLogsResolve(o, d)
  \/ \E o \in Outcomes : \E d \in Bodies(o, Payloads) : LogsResolve(o, d)
  \/ \E o \in Outcomes : \E d \in Bodies(o, Payloads) : OrdersResolve(o, d)
  \/ \E o \in Outcomes : \E d \in Bodies(o, Payloads) : PaymentsResolve(o, d)
  \/ \E o \in Outcomes : \E d \in Bodies(o, ConfigPayloads) : ConfigResolve(o, d)
  \/ \E o \in Outcomes : \E d \in Bodies(o, Payloads) : ClientsResolve(o, d)
  \/ handleRunBot
  \/ handleStopBot
  \/ \E o \in Outcomes : RunBotResolve(o)
  \/ \E o \in Outcomes : StopBotResolve(o)
  \/ \E k \in ClientFields, v \in FieldValues : ClientsInputChange(k, v)
  \/ SubmitInvalidForm
  \/ handleAddClient
  \/ \E o \in Outcomes : AddClientResolve(o)
  \/ \E id \in {"e1", "e2"}, a \in Answers : handleRemoveClient(id, a)
  \/ \E o \in Outcomes : RemoveClientResolve(o)
  \/ \E k \in SecretFields : SettingsInputChange(k)
  \/ SettingsToggleAlerts
  \/ SettingsHandleSubmit
  \/ \E o \in Outcomes : SettingsSubmitResolve(o)

SpecOps == Init /\ [][NextOps]_vars

\* the same in a browser where the stored credential can also be removed
\* from outside the program
NextEnv == NextOps \/ ExternalClear

SpecEnv == Init /\ [][NextEnv]_vars

\* the bot controls of the Dashboard
BotWriters == {"Dashboard.handleRunBot", "Dashboard.handleStopBot"}

\* the pages the operator visits in SpecDash
DashPages == {"Dashboard", "Clients"}

\* the operator uses the bot controls of the Dashboard and goes to and fro
\* between the Dashboard and the Clients page, or logs out, at any moment, also
\* while a request is awaited
NextDash ==
  \/ CheckAuthStart
  \/ \E o \in Outcomes : CheckAuthResolve(o)
  \/ LoginSubmit
  \/ \E o \in Outcomes, tok \in Tokens : LoginResolve(o, tok)
  \/ LogoutClick
  \/ \E o \in Outcomes : LogoutResolve(o)
  \/ \E page \in DashPages : NavClick(page)
  \/ \E t \in Timers : Tick(t)
  \/ \E o \in Outcomes : \E d \in Bodies(o, StatusPayloads) : FetchBotStatusResolve(o, d)
  \/ \E o \in Outcomes : \E d \in Bodies(o, Payloads) : DashboardLogsResolve(o, d)
  \/ \E o \in Outcomes : \E d \in Bodies(o, Payloads) : ClientsResolve(o, d)
  \/ \E f \in Fetchers, o \in Outcomes :
       OrphanResolve(f, o, <<>>, CHOOSE d \in StatusPayloads : TRUE,
                     CHOOSE d \in ConfigPayloads : TRUE)
  \/ handleRunBot
  \/ handleStopBot
  \/ \E o \in Outcomes : RunBotResolve(o)
  \/ \E o \in Outcomes : StopBotResolve(o)
  \/ \E f \in BotWriters, o \in Outcomes : OrphanWriteResolve(f, o)
  \/ ViewAllLogs

SpecDash == Init /\ [][NextDash]_vars

TypeOK ==
  /\ storage \in Tokens \cup {None}
  /\ currentPage \in Pages \cup UnknownPages \cup {"Login"}
  /\ isAuthenticated \in BOOLEAN
  /\ loadingApp \in BOOLEAN
  /\ checkPc \in {"start", "await", "done"}
  /\ logoutPending \in 0..MaxLogout
  /\ mounted \in Pages \cup {"Login", "Loading application..."}
  /\ loginPending \in BOOLEAN
  /\ timers \subseteq Timers
  /\ Counted(live, orphan) <= MaxInFlight
  /\ OrphanWrites(orphan) <= MaxOrphanWrites

(***************************************************************************)
(* Properties                                                              *)
(***************************************************************************)
\* C1: after any sequence of startup-check, login, logout and page-select
\* steps, if a login succeeded and no logout completed after it, the item
\* 'token' in storage is the token that login returned; and once a logout has
\* completed (whatever the /api/logout call did, or if it was skipped) the
\* item is absent until the next successful login.
C1_StoredCredential ==
  /\ session \in Tokens => storage = session
  /\ session = "logout" => storage = None

\* reached: a second login succeeded while a /api/logout of the previous
\* session was still awaited
C1_Witness ==
  /\ lastAction = Act("Login.handleSubmit:resolve", "ok")
  /\ session = "xyz"
  /\ storage = "xyz"
  /\ logoutPending = 1

C3_NoTokenNoRequest ==
  [][checkPc = "start" /\ storage = None
       => /\ checkPc' = "done"
          /\ ~loadingApp'
          /\ ~isAuthenticated'
          /\ mounted' = "Login"
          /\ InFlight(live', orphan') = 0
          /\ logoutPending' = 0
          /\ ~loginPending']_vars

C3_Witness ==
  /\ lastAction = Act("checkAuthStatus", "-")
  /\ checkPc = "done"
  /\ storage = None
  /\ mounted = "Login"

\* C4: when /api/status answers the startup check with a non-OK status, the
\* credential is removed from storage and the Login view is rendered.
C4_RejectedClears ==
  (lastAction.name = "checkAuthStatus:resolve" /\ lastAction.outcome \in HttpErrors)
    => storage = None /\ ~isAuthenticated /\ ~loadingApp /\ mounted = "Login"

C4_Witness ==
  /\ lastAction = Act("checkAuthStatus:resolve", "errNoMsg")
  /\ storage = None
  /\ mounted = "Login"

\* C5: when /api/status accepts the stored credential the controller becomes
\* authenticated on the landing page Dashboard and storage is unchanged.
C5_AcceptedAuthenticates ==
  [][(lastAction'.name = "checkAuthStatus:resolve"
        /\ lastAction'.outcome \in {"ok", "okBadBody"})
       => /\ isAuthenticated'
          /\ ~loadingApp'
          /\ currentPage' = "Dashboard"
          /\ mounted' = "Dashboard"
          /\ storage' = storage
          /\ storage' \in Tokens]_vars

C5_Witness ==
  /\ lastAction = Act("checkAuthStatus:resolve", "ok")
  /\ isAuthenticated
  /\ mounted = "Dashboard"
  /\ timers = MountTimers("Dashboard")

\* C6: a login answered OK with token T takes the controller from
\* unauthenticated to authenticated with page Dashboard selected and T stored.
C6_LoginSuccess ==
  [][lastAction' = Act("Login.handleSubmit:resolve", "ok")
       => /\ ~isAuthenticated
          /\ isAuthenticated'
          /\ currentPage' = "Dashboard"
          /\ mounted' = "Dashboard"
          /\ storage' = session'
          /\ storage' \in Tokens]_vars

\* reached: a login that replaces the token an earlier visit left in storage
C6_Witness ==
  /\ lastAction = Act("Login.handleSubmit:resolve", "ok")
  /\ isAuthenticated
  /\ currentPage = "Dashboard"
  /\ storage = "abc"
  /\ logoutPending = 0

\* C7: a login that ends in a non-OK response or a failure of the request
\* leaves storage, the authenticated flag and the selected page unchanged and
\* the controller unauthenticated; only Login's error and loading change.
C7_LoginFailureKeepsState ==
  [][(lastAction'.name = "Login.handleSubmit:resolve" /\ lastAction'.outcome # "ok")
       => /\ UNCHANGED <<storage, isAuthenticated, currentPage, loadingApp, mounted,
                         dashboard, logs, orders, payments, settings, clients, timers>>
          /\ ~isAuthenticated'
          /\ mounted' = "Login"
          /\ login'.loading = FALSE
          /\ login'.error # ""]_vars

C7_Witness ==
  /\ lastAction = Act("Login.handleSubmit:resolve", "network")
  /\ login.error = LoginNetworkMsg
  /\ storage \in Tokens
  /\ ~isAuthenticated

\* C8: whenever handleLogout finishes (the /api/logout call returned any
\* status, threw, or was skipped) the credential is gone from storage and the
\* controller is unauthenticated with the Login view.
C8_LogoutAlwaysClears ==
  (lastAction.name = "handleLogout:resolve" \/ (lastAction.name = "handleLogout" /\ session = "logout"))
    => /\ storage = None
       /\ ~isAuthenticated
       /\ currentPage = "Login"
       /\ mounted = "Login"
       /\ timers = {}

\* reached: the logout call failed with an HTTP error while Orders was shown
C8_Witness ==
  /\ lastAction = Act("handleLogout:resolve", "errNoMsg")
  /\ storage = None
  /\ mounted = "Login"
  /\ orphan["Orders.fetchOrders"] > 0

\* C9: while authenticated, a selected page name outside the enumerated set
\* renders the Dashboard, and selecting the same name again changes nothing.
C9_UnknownPageFallback ==
  [][/\ (isAuthenticated' /\ ~loadingApp' /\ currentPage' \notin Pages)
          => (mounted' = "Dashboard" /\ timers' = MountTimers("Dashboard"))
     /\ (lastAction'.name = "setCurrentPage" /\ currentPage' = currentPage)
          => UNCHANGED <<mounted, login, dashboard, logs, orders, payments, settings,
                         clients, timers, live, orphan>>]_vars

C9_Witness ==
  /\ lastAction.name = "setCurrentPage"
  /\ currentPage = "Reports"
  /\ isAuthenticated
  /\ mounted = "Dashboard"
  /\ dashboard.botStatus = "Stopped by user"

\* C10: once a polling page is no longer mounted its interval timers are not
\* registered, no timer tick issues a request on its behalf, and a response
\* that resolves for it changes nothing of the view state.
C10_TimersCancelled ==
  [][/\ timers' \subseteq MountTimers(mounted')
     /\ lastAction'.name = "tick" => orphan' = orphan
     /\ lastAction'.name = "resolve:unmounted"
          => UNCHANGED <<currentPage, isAuthenticated, loadingApp, mounted, login,
                         dashboard, logs, orders, payments, settings, clients>>]_vars

\* reached: a request of Orders resolved after the switch to Payments
C10_Witness ==
  /\ lastAction = ActOn("resolve:unmounted", "-", "Orders.fetchOrders")
  /\ mounted = "Payments"
  /\ timers = {"Payments.interval"}
  /\ live["Payments.fetchPayments"] = 1
  /\ payments.loading

\* C11: the item 'token' of localStorage is written only by App: by the
\* startup check, by the login-success handler and by the logout handler.  No
\* step of a page component (a fetch, a poll, an input, adding or removing a
\* client, saving the configuration, running or stopping the bot) changes it.
C11_StorageFrame ==
  [][storage' # storage
       => lastAction'.name \in {"checkAuthStatus:resolve", "Login.handleSubmit:resolve",
                                "handleLogout", "handleLogout:resolve"}]_vars

C11_Witness ==
  /\ lastAction = ActOn("resolve", "err", "Settings.handleSubmit")
  /\ storage \in Tokens
  /\ isAuthenticated
  /\ settings.error = ServerMsg

\* C12: every request a page component issues to a business-data endpoint
\* while a credential is stored carries the header Authorization: Bearer with
\* the token that is in storage when the request is issued.
C12_AsStated ==
  \A r \in sent : (r.by \in Requests /\ storage # None) => r.auth = storage

\* C13: whenever the backend answers an authenticated request of a page (a
\* fetch or a write that carries the token) with an error status, the session
\* is destroyed: the credential is cleared and App is unauthenticated.
C13_AsStated ==
  ( /\ lastAction.name = "resolve"
    /\ lastAction.outcome \in HttpErrors
    /\ lastAction.of \in {"Logs.fetchBotLogs", "Payments.fetchPayments",
                          "Settings.fetchConfig", "Settings.handleSubmit"} )
    => storage = None /\ ~isAuthenticated

\* C14: in Logs, Payments and Settings (read and save), an operation that
\* finds no credential in storage sets the 'Authentication token missing'
\* error, issues no request and leaves the page's data (log lines, payments,
\* config) as it was.
C14_MissingToken ==
  [][storage' = None =>
       /\ (lastAction'.name = "tick" /\ lastAction'.of = "Logs.interval"
              /\ mounted = "Logs")
            => /\ logs' = [logs EXCEPT !.error = MissingTokenMsg, !.loading = FALSE]
               /\ sent' = {} /\ live' = live /\ orphan' = orphan
       /\ (lastAction'.name = "tick" /\ lastAction'.of = "Payments.interval"
              /\ mounted = "Payments")
            => /\ payments' = [payments EXCEPT !.error = MissingTokenMsg,
                                               !.loading = FALSE]
               /\ sent' = {} /\ live' = live /\ orphan' = orphan
       /\ (mounted' # mounted /\ mounted' = "Logs")
            => /\ logs' = [logMessages |-> <<>>, loading |-> FALSE,
                           error |-> MissingTokenMsg]
               /\ sent' = {} /\ live' = NoRequests
       /\ (mounted' # mounted /\ mounted' = "Payments")
            => /\ payments' = [payments |-> <<>>, loading |-> FALSE,
                               error |-> MissingTokenMsg]
               /\ sent' = {} /\ live' = NoRequests
       /\ (mounted' # mounted /\ mounted' = "Settings")
            => /\ settings' = [config |-> ConfigInit, loading |-> FALSE, message |-> "",
                               error |-> MissingTokenMsg]
               /\ sent' = {} /\ live' = NoRequests
       /\ lastAction'.name = "Settings.handleSubmit"
            => /\ settings' = [settings EXCEPT !.message = "", !.error = MissingTokenMsg]
               /\ sent' = {} /\ live' = live /\ orphan' = orphan
       /\ lastAction' = ActOn("resolve", "ok", "Settings.handleSubmit")
            => /\ settings'.error = MissingTokenMsg
               /\ settings'.config = settings.config
               /\ sent' = {}
               /\ live'["Settings.fetchConfig"] = live["Settings.fetchConfig"]
  ]_vars

C14_Witness ==
  /\ lastAction = Act("Settings.handleSubmit", "-")
  /\ storage = None
  /\ mounted = "Settings"
  /\ settings.error = MissingTokenMsg
  /\ settings.config.bybitApiSecret = Typed
  /\ sent = {}

\* C15: for every read fetch of a page, an answer with an HTTP error status
\* leaves as the visible error the message of the server or the fallback of
\* the page, never the connectivity message.
C15_AsStated ==
  (lastAction.name = "resolve" /\ lastAction.outcome \in HttpErrors) =>
    /\ lastAction.of = "Logs.fetchBotLogs"
         => logs.error \in {ServerMsg, "Failed to fetch logs."}
    /\ lastAction.of = "Orders.fetchOrders"
         => orders.error \in {ServerMsg,
                              "Failed to fetch orders (no authentication required)."}
    /\ lastAction.of = "Payments.fetchPayments"
         => payments.error \in {ServerMsg, "Failed to fetch payments."}
    /\ lastAction.of = "Settings.fetchConfig"
         => settings.error \in {ServerMsg, "Failed to fetch configuration."}
    /\ lastAction.of = "Clients.fetchClients"
         => clients.error \in {ServerMsg,
                               "Failed to fetch clients (no authentication required)."}

\* C16: when DELETE /api/remove-client/{id} is answered OK, the Clients page
\* shows the success message of the answer and issues exactly one GET of the
\* client list; the same holds when POST /api/add-client is answered OK.
C16_SuccessRefetch ==
  [][( /\ lastAction'.name = "resolve"
       /\ lastAction'.outcome = "ok"
       /\ lastAction'.of \in {"Clients.handleAddClient", "Clients.handleRemoveClient"} )
       => /\ clients'.message = ServerMsg
          /\ sent' = {[by |-> "Clients.fetchClients", method |-> "GET",
                       ep |-> "/api/clients", auth |-> None, body |-> "-"]}
          /\ live'["Clients.fetchClients"] = live["Clients.fetchClients"] + 1
          /\ clients'.loading
          /\ clients'.clients = clients.clients]_vars

C16_Witness ==
  /\ lastAction = ActOn("resolve", "ok", "Clients.handleRemoveClient")
  /\ mounted = "Clients"
  /\ clients.message = ServerMsg
  /\ clients.clients = <<"e1", "e2">>
  /\ live["Clients.fetchClients"] = 1
  /\ live["Clients.handleRemoveClient"] = 0

\* C17: when a write (add-client, remove-client, save of the configuration)
\* fails with an HTTP error status or at transport level, the page shows an
\* error, the client list, the fields of the add form and the configuration
\* stay as they were, and no read fetch is issued.
C17_FailedWrite ==
  [][(lastAction'.name = "resolve" /\ lastAction'.outcome \in HttpErrors \cup {"network"})
       => /\ lastAction'.of \in {"Clients.handleAddClient", "Clients.handleRemoveClient"}
               => /\ clients'.error # ""
                  /\ clients'.clients = clients.clients
                  /\ clients'.newClient = clients.newClient
                  /\ clients'.loading = clients.loading
                  /\ sent' = {}
                  /\ live'["Clients.fetchClients"] = live["Clients.fetchClients"]
          /\ lastAction'.of = "Settings.handleSubmit"
               => /\ settings'.error # ""
                  /\ settings'.config = settings.config
                  /\ settings'.loading = settings.loading
                  /\ sent' = {}
                  /\ live'["Settings.fetchConfig"] = live["Settings.fetchConfig"]]_vars

C17_Witness ==
  /\ lastAction = ActOn("resolve", "errNoMsg", "Clients.handleAddClient")
  /\ mounted = "Clients"
  /\ clients.error = "Failed to add client."
  /\ clients.newClient = [name |-> "v", account |-> "v", bank |-> "v", amount |-> "v"]
  /\ clients.clients = <<"e1">>
  /\ live = NoRequests

\* C18: DELETE /api/remove-client/{id} is sent only in the step in which the
\* operator confirmed the removal; when the confirmation is declined (or does
\* not come about) no request is sent and message, error and client list
\* stay as they were.
C18_ConfirmedRemove ==
  [][/\ (\E r \in sent' : r.method = "DELETE")
          => lastAction' = Act("Clients.handleRemoveClient", "yes")
     /\ (lastAction'.name = "Clients.handleRemoveClient" /\ lastAction'.outcome # "yes")
          => /\ sent' = {}
             /\ live' = live
             /\ clients' = clients]_vars

C18_Witness ==
  /\ lastAction = Act("Clients.handleRemoveClient", "no")
  /\ mounted = "Clients"
  /\ clients.message = ServerMsg
  /\ clients.clients = <<"e1", "e2">>
  /\ sent = {}
  /\ live = NoRequests

\* C19: when the add-client form is submitted while one of the required
\* fields (name, account, bank, amount) is empty, handleAddClient does not
\* run: no POST /api/add-client is issued and nothing of the page changes.
C19_RequiredFields ==
  [][(\E k \in {"name", "account", "bank", "amount"} : clients.newClient[k] = "")
       => /\ lastAction'.name # "Clients.handleAddClient"
          /\ \A r \in sent' : r.ep # "/api/add-client"
          /\ lastAction'.name = "Clients.submit"
               => clients' = clients /\ live' = live /\ sent' = {}]_vars

C19_Witness ==
  /\ lastAction = Act("Clients.submit", "invalid")
  /\ mounted = "Clients"
  /\ clients.newClient = [name |-> "v", account |-> "v", bank |-> "v", amount |-> ""]
  /\ live["Clients.handleAddClient"] = 0
  /\ sent = {}

\* C20: a masked value that GET /api/config returned for a secret field
\* (bybitApiSecret, paystackSecretKey, email_password) is never the value of
\* that field in the body of a POST /api/config; a field the operator edited
\* holds what was typed, so a masked value in the body is an unedited one.
C20_AsStated ==
  \A r \in sent :
    (r.method = "POST" /\ r.ep = "/api/config")
      => \A k \in SecretFields : r.body[k] # Masked

C22_AsStated ==
  [][\A f \in PollFetchers :
       (mounted = Owner(f) /\ pollHistory # "fresh"
          /\ lastAction.name = "resolve" /\ lastAction.of = f /\ live[f] = 1
          /\ lastAction'.name = "resolve" /\ lastAction'.of = f)
         => /\ PollData(f)' \in Payloads \cup {<<>>}
            /\ IF lastAction'.outcome = "ok"
               THEN PollPage(f)'.error = "" /\ PollData(f)' \in Payloads
               ELSE PollPage(f)'.error # ""]_vars

\* C23: the controller starts in CHECKING and changes state only by
\* CHECKING -> UNAUTHENTICATED or AUTHENTICATED (the startup check),
\* UNAUTHENTICATED -> AUTHENTICATED (a login) and AUTHENTICATED ->
\* UNAUTHENTICATED (a logout); CHECKING is never re-entered; and while in
\* CHECKING only the loading text is rendered (no Login view, no navigation
\* bar, no page), so the only step that can be taken is the startup check.
C23_ControllerTransitions ==
  [][LET s == ControllerState(loadingApp, isAuthenticated)
         n == ControllerState(loadingApp', isAuthenticated')
         step == lastAction'.name
     IN /\ lastAction.name = "init" => s = "CHECKING"
        /\ s = "CHECKING"
             => /\ mounted = "Loading application..."
                /\ ~NavRendered
                /\ timers = {} /\ InFlight(live, orphan) = 0
                /\ step \in {"checkAuthStatus", "checkAuthStatus:resolve"}
        /\ n = "CHECKING" => s = "CHECKING"
        /\ s # n
             => \/ /\ s = "CHECKING"
                   /\ step \in {"checkAuthStatus", "checkAuthStatus:resolve"}
                \/ /\ s = "UNAUTHENTICATED" /\ n = "AUTHENTICATED"
                   /\ step = "Login.handleSubmit:resolve"
                \/ /\ s = "AUTHENTICATED" /\ n = "UNAUTHENTICATED"
                   /\ step \in {"handleLogout", "handleLogout:resolve"}]_vars

\* reached: checked, logged out and logged in again while a second
\* /api/logout of the earlier session is still awaited
C23_Witness ==
  /\ ControllerState(loadingApp, isAuthenticated) = "AUTHENTICATED"
  /\ lastAction = Act("Login.handleSubmit:resolve", "ok")
  /\ checkPc = "done"
  /\ logoutPending = 1
  /\ mounted = "Dashboard"

\* C24: the authenticated flag and the selected page change only when the
\* startup check completes, a login succeeds, a logout is handled or a page
\* is selected; no answer to a read, poll or write request of a page
\* component (success, HTTP error such as 401, or transport failure), and no
\* other step of a page, changes either of them.
C24_ControllerFrame ==
  [][/\ (isAuthenticated' # isAuthenticated \/ currentPage' # currentPage)
          => \/ lastAction'.name \in {"checkAuthStatus", "checkAuthStatus:resolve",
                                      "handleLogout", "handleLogout:resolve",
                                      "setCurrentPage"}
             \/ lastAction' = Act("Login.handleSubmit:resolve", "ok")
     /\ lastAction'.name \in {"resolve", "resolve:unmounted", "tick"}
          => isAuthenticated' = isAuthenticated /\ currentPage' = currentPage]_vars

\* reached: the server rejected a poll of the Orders page and the controller
\* still shows that page as authenticated
C24_Witness ==
  /\ lastAction = ActOn("resolve", "err", "Orders.fetchOrders")
  /\ isAuthenticated
  /\ currentPage = "Orders"
  /\ mounted = "Orders"
  /\ orders.error = ServerMsg
  /\ pollHistory # "fresh"

\* C25 (as stated): after any sequence of status polls, successful or
\* failed, the four fields the Dashboard displays (status, lastRunTime,
\* numOrders, numPayments) all come from one and the same server response
\* (an absent lastRunTime being shown as N/A), or no response has been
\* displayed yet and all are values of the client; never a mix of responses
\* or of a response with a value the client made up.
C25_AsStated ==
  mounted = "Dashboard"
    => \/ /\ dashboard.botStatus \in {DashboardInit.botStatus, "Error (API)", "Error (Network)"}
          /\ dashboard.lastRunTime = DashboardInit.lastRunTime
          /\ dashboard.numOrders = DashboardInit.numOrders
          /\ dashboard.numPayments = DashboardInit.numPayments
       \/ \E d \in StatusPayloads :
            /\ dashboard.botStatus = d.status
            /\ dashboard.lastRunTime = (IF d.lastRunTime = "" THEN "N/A" ELSE d.lastRunTime)
            /\ dashboard.numOrders = d.numOrders
            /\ dashboard.numPayments = d.numPayments

\* C26: in every reachable state in which the navigation bar or an
\* authenticated page is rendered a credential is present in storage: the
\* authenticated flag is never true while the item 'token' is absent.
C26_AuthenticatedHasCredential ==
  /\ isAuthenticated => HasToken(storage)
  /\ (NavRendered \/ mounted \in Pages) => storage \in Tokens

\* reached: a page rendered after a login, with the credential of that login
\* in storage while a /api/logout is awaited
C26_Witness ==
  /\ isAuthenticated
  /\ mounted = "Logs"
  /\ logoutPending = 1
  /\ session \in Tokens
  /\ storage = session

\* C27 (as stated): on the Logs, Orders and Payments pages the loading flag
\* is true whenever at least one read fetch of the page is in flight and
\* false whenever none is, also when a tick started a fetch before the
\* previous one was answered.
C27_AsStated ==
  \A f \in PollFetchers :
    mounted = Owner(f) => (PollPage(f).loading <=> live[f] > 0)

\* C28 (as stated): while the Dashboard is shown at most one bot-control
\* request (POST /api/trigger-bot-run or POST /api/stop-bot) is in flight;
\* while one is pending both buttons are disabled, and once it has been
\* answered or has failed loading is lowered again; Run Bot is never enabled
\* while the status starts with 'Running', and Stop Bot never while it
\* starts with 'Stopped' or 'Idle'.
C28_AsStated ==
  mounted = "Dashboard"
    => LET pending == SumOver(live, BotWriters) + SumOver(orphan, BotWriters) IN
       /\ pending <= 1
       /\ pending > 0 => RunDisabled(dashboard) /\ StopDisabled(dashboard)
       /\ (lastAction.name = "resolve" /\ lastAction.of \in BotWriters)
            => ~dashboard.loading
       /\ StartsWith(dashboard.botStatus, "Running") => RunDisabled(dashboard)
       /\ (StartsWith(dashboard.botStatus, "Stopped")
             \/ StartsWith(dashboard.botStatus, "Idle")) => StopDisabled(dashboard)

\* C29 (as stated): when the Dashboard is the rendered page, its View All
\* Logs button selects the page Logs without raising an error: the Logs page
\* is rendered next and the timers of the Dashboard are cancelled.
C29_AsStated ==
  lastAction.name = "Dashboard.viewAllLogs"
    => /\ lastAction.outcome # "TypeError"
       /\ currentPage = "Logs"
       /\ mounted = "Logs"
       /\ timers = MountTimers("Logs")

====
